---- MODULE Spec2Model ----
(***************************************************************************)
(* Model of bg_remove.py: the background-removal pipeline (size guard,     *)
(* decode, resize_image, memoised process_image, compositing, output       *)
(* encoding) run by concurrent Streamlit sessions, and the pure function   *)
(* resize_image on its own.                                                *)
(***************************************************************************)
EXTENDS Integers, Sequences, FiniteSets, TLC

(***************************************************************************)
(* Bounds of the model.                                                    *)
(***************************************************************************)
\* concurrent Streamlit sessions (script threads)
NumSessions == 2
\* script runs over all sessions
MaxRequests == 2
\* resize_image alone: bounds D in 1..MaxBound, sides in 1..MaxSide
MaxBound == 3
MaxSide == 49

(***************************************************************************)
(* Program constants.                                                      *)
(***************************************************************************)
MAX_FILE_SIZE == 10 * 1024 * 1024
MAX_DIMENSION == 2000

\* Python's None where a string is expected, and where an object is
None == "None"
Nothing == [none |-> TRUE]
\* an exception in place of a return value
Raised(e) == [raised |-> e]
IsRaised(x) == "raised" \in DOMAIN x

VARIABLES
    pc,         \* per session: where its script run stands
    req,        \* per session: the widgets' values of this run
    img_bytes,  \* per session: line 95
    img,        \* per session: process_image's local img
    result,     \* per session: line 104
    final,      \* per session: lines 111/113
    buf,        \* per session: lines 127-133, the encoded download
    download,   \* per session: the download button's arguments
    err,        \* per session: the error that ended the run
    path,       \* per session: how result was obtained (cold, hit, waited)
    blocked,    \* per session: it missed the cache while the key was locked
    invoked,    \* per session: this run invoked remove
    cache,      \* st.cache_data's store of process_image: key -> pickled value
    lock,       \* st.cache_data's compute lock per key: its holder, or 0
    calls,      \* per byte sequence: invocations of remove
    fails,      \* per byte sequence: invocations of remove that raised
    started,    \* script runs started
    delivered,  \* the downloads offered so far
    rz          \* a call of resize_image on its own

local == <<pc, req, img_bytes, img, result, final, buf, download, err, path,
           blocked, invoked>>
shared == <<cache, lock, calls, fails, started, delivered>>
vars == <<local, shared, rz>>

(***************************************************************************)
(* Python float arithmetic (IEEE-754 binary64, round to nearest, ties to   *)
(* even) as used by `scale = max_dim / max(w, h)` and `int(w * scale)`.    *)
(* A positive float is [m |-> mantissa bits, most significant first,       *)
(* e |-> exponent of the last mantissa bit]: its value is Nat(m) * 2^e.    *)
(***************************************************************************)
\* bits of precision of a Python float
PREC == 53
\* width of a limb of the long multiplication
LIMB == 15

Max(a, b) == IF a >= b THEN a ELSE b

RECURSIVE NatToBits(_)
NatToBits(n) == IF n = 0 THEN << >> ELSE Append(NatToBits(n \div 2), n % 2)

RECURSIVE BitsToNat(_)
BitsToNat(b) ==
    IF b = << >> THEN 0
    ELSE 2 * BitsToNat(SubSeq(b, 1, Len(b) - 1)) + b[Len(b)]

\* b + 1 on a bit string (one bit longer when b is all ones)
IncBits(b) ==
    IF \A i \in 1..Len(b) : b[i] = 1 THEN <<1>> \o [i \in 1..Len(b) |-> 0]
    ELSE LET p == CHOOSE i \in 1..Len(b) :
                      b[i] = 0 /\ \A j \in (i + 1)..Len(b) : b[j] = 1
         IN [i \in 1..Len(b) |-> IF i < p THEN b[i] ELSE IF i = p THEN 1 ELSE 0]

Zeros(n) == [i \in 1..n |-> 0]

\* Round the exact bit string b (leading bit 1; sticky: nonzero bits lie
\* beyond b) to PREC bits, ties to even.  drop is the number of low bits of b
\* that the mantissa no longer holds (negative when b was padded).
RoundBits(b, sticky) ==
    IF Len(b) <= PREC
    THEN [m |-> b \o Zeros(PREC - Len(b)), drop |-> Len(b) - PREC]
    ELSE LET keep == SubSeq(b, 1, PREC)
             guard == b[PREC + 1]
             rest == sticky \/ \E i \in (PREC + 2)..Len(b) : b[i] = 1
             up == guard = 1 /\ (rest \/ keep[PREC] = 1)
             m0 == IF up THEN IncBits(keep) ELSE keep
         IN IF Len(m0) > PREC
            THEN [m |-> SubSeq(m0, 1, PREC), drop |-> Len(b) - PREC + 1]
            ELSE [m |-> m0, drop |-> Len(b) - PREC]

\* 2^i
RECURSIVE Pow2(_)
Pow2(i) == IF i = 0 THEN 1 ELSE 2 * Pow2(i - 1)

\* 2^i mod d, by squaring (d below 2^15, so no product overflows)
RECURSIVE Pow2Mod(_, _)
Pow2Mod(i, d) ==
    IF i = 0 THEN 1 % d
    ELSE LET h == Pow2Mod(i \div 2, d)
             sq == (h * h) % d
         IN IF i % 2 = 0 THEN sq ELSE (2 * sq) % d

\* what is left of r / d (0 <= r < d) after i binary places, times d
FracRem(r, d, i) == (r * Pow2Mod(i, d)) % d

\* the i-th bit of r / d after the binary point
FracBit(r, d, i) == (2 * FracRem(r, d, i - 1)) \div d

\* a / d for ints a >= 1, d >= 1: Python's true division, correctly rounded.
\* z is the number of zero bits between the binary point and the first one
\* bit of a quotient below 1.
TrueDiv(a, d) ==
    LET q == a \div d
        r == a % d
        ib == NatToBits(q)
        z == IF q > 0 THEN 0
             ELSE (CHOOSE i \in 1..(PREC + 11) :
                       FracBit(r, d, i) = 1
                       /\ \A j \in 1..(i - 1) : FracBit(r, d, j) = 0) - 1
        n == PREC + 1 - Len(ib)
        fb == [i \in 1..n |-> FracBit(r, d, z + i)]
        rb == RoundBits(ib \o fb, FracRem(r, d, z + n) # 0)
    IN [m |-> rb.m, e |-> rb.drop - z - n]

\* the mantissa m cut into limbs of LIMB bits, limb k = 0 the lowest
LimbOf(m, k) ==
    LET hi == PREC - LIMB * k
        lo == Max(1, hi - LIMB + 1)
    IN BitsToNat(SubSeq(m, lo, hi))

\* bits of Nat(m) * w for a PREC-bit mantissa m and an int 1 <= w < 2^LIMB,
\* by long multiplication over the limbs
MulBits(m, w) ==
    LET B == Pow2(LIMB)
        c0 == LimbOf(m, 0) * w
        c1 == LimbOf(m, 1) * w + c0 \div B
        c2 == LimbOf(m, 2) * w + c1 \div B
        c3 == LimbOf(m, 3) * w + c2 \div B
        p == <<c0 % B, c1 % B, c2 % B, c3 % B, c3 \div B>>
        bit(j) == (p[j \div LIMB + 1] \div Pow2(j % LIMB)) % 2
        top == CHOOSE j \in 0..(5 * LIMB - 1) :
                   bit(j) = 1 /\ \A k \in (j + 1)..(5 * LIMB - 1) : bit(k) = 0
    IN [i \in 1..(top + 1) |-> bit(top + 1 - i)]

\* w * x for an int w >= 1 and a float x: w converts exactly, the product
\* is rounded once.
IntTimesFloat(w, x) ==
    LET rb == RoundBits(MulBits(x.m, w), FALSE)
    IN [m |-> rb.m, e |-> x.e + rb.drop]

\* int(x) for a positive float x below 2^PREC: truncation
IntOf(x) ==
    IF PREC + x.e <= 0 THEN 0 ELSE BitsToNat(SubSeq(x.m, 1, PREC + x.e))

(***************************************************************************)
(* Images.  An image is [mode, size, px, format]: px names the pixel data  *)
(* by the operations that produced it, format is the file format the       *)
(* image was opened from (None for an image made by an operation).         *)
(***************************************************************************)
\* Image.resize: Pillow refuses a size with a side below 1
ImageResize(image, size) ==
    IF size[1] < 1 \/ size[2] < 1 THEN Raised("ValueError")
    ELSE [mode |-> image.mode, size |-> size,
          px |-> Append(image.px, "LANCZOS"), format |-> None]

\* faulty variant: the smaller side is tested instead of the larger
WithinLimitMin(w, h, max_dim) == (IF w <= h THEN w ELSE h) <= max_dim

\* line 39: the test of resize_image's early return
WithinLimit(w, h, max_dim) == Max(w, h) <= max_dim

\* lines 42-44: the size resize_image asks Image.resize for
ScaledSize(w, h, max_dim) ==
    LET scale == TrueDiv(max_dim, Max(w, h))
    IN <<IntOf(IntTimesFloat(w, scale)), IntOf(IntTimesFloat(h, scale))>>

resize_image(image, max_dim) ==
    LET w == image.size[1]
        h == image.size[2]
    IN IF WithinLimit(w, h, max_dim) THEN image
       ELSE ImageResize(image, ScaledSize(w, h, max_dim))

\* Image.convert("RGBA")
ConvertRGBA(image) ==
    [mode |-> "RGBA", size |-> image.size,
     px |-> IF image.mode = "RGBA" THEN image.px ELSE Append(image.px, "RGBA"),
     format |-> None]

\* rembg's remove when it returns: an RGBA cutout of the same size
Remove(image) ==
    [mode |-> "RGBA", size |-> image.size, px |-> Append(image.px, "remove"),
     format |-> None]

\* st.cache_data stores the pickled return value and unpickles a fresh copy
\* on a hit; Image.__getstate__ keeps mode, size and pixel data.
Pickle(image) == <<image.mode, image.size, image.px>>
\* faulty variant: the alpha band is lost on the way through the cache
UnpickleRGB(state) ==
    [mode |-> "RGB", size |-> state[2], px |-> state[3], format |-> None]

Unpickle(state) ==
    [mode |-> state[1], size |-> state[2], px |-> state[3], format |-> None]

\* lines 109-111: a new RGB image filled with bg_color, result pasted onto
\* it through result's alpha band
Paste(res, bg_color) ==
    [mode |-> "RGB", size |-> res.size, px |-> <<"paste", bg_color, res.px>>,
     format |-> None]

\* line 108
FillApplied(r) == r.fill_bg /\ r.bg_color # None

\* lines 108-113
Composite(res, r) == IF FillApplied(r) THEN Paste(res, r.bg_color) ELSE res

\* faulty variant: the test of the mode is inverted
FormatForInverted(image) ==
    IF image.mode = "RGB" THEN [fmt |-> "PNG", ext |-> "png"]
    ELSE [fmt |-> "JPEG", ext |-> "jpg"]

\* lines 127-130
FormatFor(image) ==
    IF image.mode = "RGBA" THEN [fmt |-> "PNG", ext |-> "png"]
    ELSE [fmt |-> "JPEG", ext |-> "jpg"]

\* line 133: the bytes Image.save writes
Save(image, fmt) ==
    [fmt |-> fmt, mode |-> image.mode, size |-> image.size, px |-> image.px]

(***************************************************************************)
(* The inputs: the byte sequences the sessions upload, and the upload      *)
(* objects that carry them (with or without a size attribute).             *)
(***************************************************************************)
Content ==
    [large |-> [len |-> MAX_FILE_SIZE + 1, ok |-> TRUE, format |-> "JPEG",
                mode |-> "RGB", size |-> <<4000, 3000>>],
     exact |-> [len |-> MAX_FILE_SIZE, ok |-> TRUE, format |-> "PNG",
                mode |-> "RGBA", size |-> <<2000, 1500>>],
     square |-> [len |-> MAX_FILE_SIZE - 1, ok |-> TRUE, format |-> "PNG",
                 mode |-> "RGB", size |-> <<2105, 2105>>],
     thin |-> [len |-> 4096, ok |-> TRUE, format |-> "PNG",
               mode |-> "RGB", size |-> <<2001, 1>>],
     junk |-> [len |-> 4096, ok |-> FALSE, format |-> None,
               mode |-> None, size |-> <<0, 0>>]]

Bytes == DOMAIN Content

Uploads ==
    [u1 |-> [bytes |-> "large", sized |-> TRUE],
     u2 |-> [bytes |-> "large", sized |-> FALSE],
     u3 |-> [bytes |-> "exact", sized |-> TRUE],
     u4 |-> [bytes |-> "square", sized |-> TRUE],
     u5 |-> [bytes |-> "thin", sized |-> TRUE],
     u6 |-> [bytes |-> "junk", sized |-> TRUE]]

Colors == {"#FFFFFF", "#FF0000"}
Sessions == 1..NumSessions

\* Image.open(BytesIO(image_bytes))
ImageOpen(b) ==
    [mode |-> Content[b].mode, size |-> Content[b].size, px |-> <<b>>,
     format |-> Content[b].format]

\* resize_image(img, MAX_DIMENSION) for every image process_image can hold
\* at line 61
ResizeTable ==
    [i \in {ConvertRGBA(ImageOpen(b)) : b \in {x \in Bytes : Content[x].ok}} |->
        resize_image(i, MAX_DIMENSION)]

(***************************************************************************)
(* The script, one run per session at a time.  An action is the code a run *)
(* executes between two of its accesses to what the sessions share (the    *)
(* cache of process_image and its locks) or to the segmentation model.     *)
(***************************************************************************)
NoRequest == [upload |-> None, fill_bg |-> FALSE, bg_color |-> None]

\* lines 70-79: the widgets' values a run can see
Requests ==
    {[upload |-> u, fill_bg |-> fb, bg_color |-> IF fb THEN c ELSE None] :
        u \in DOMAIN Uploads \cup {None}, fb \in BOOLEAN, c \in Colors}

\* faulty variant: the fill colour is part of the cache key
KeyWithFill(b, r) == <<b, r.bg_color>>

\* line 47: the cache key of process_image(image_bytes) is made of its
\* argument alone, whatever the widgets of request r hold
KeyOf(b, r) == b

Keys == {KeyOf(Uploads[r.upload].bytes, r) : r \in {x \in Requests : x.upload # None}}

PipeInit ==
    /\ pc = [s \in Sessions |-> "Idle"]
    /\ req = [s \in Sessions |-> NoRequest]
    /\ img_bytes = [s \in Sessions |-> None]
    /\ img = [s \in Sessions |-> Nothing]
    /\ result = [s \in Sessions |-> Nothing]
    /\ final = [s \in Sessions |-> Nothing]
    /\ buf = [s \in Sessions |-> Nothing]
    /\ download = [s \in Sessions |-> Nothing]
    /\ err = [s \in Sessions |-> None]
    /\ path = [s \in Sessions |-> None]
    /\ blocked = [s \in Sessions |-> FALSE]
    /\ invoked = [s \in Sessions |-> FALSE]
    /\ cache = [k \in Keys |-> << >>]
    /\ lock = [k \in Keys |-> 0]
    /\ calls = [b \in Bytes |-> 0]
    /\ fails = [b \in Bytes |-> 0]
    /\ started = 0
    /\ delivered = {}

RzOff == [st |-> "off", w |-> 1, h |-> 1, d |-> 1, out |-> Nothing]

Init == PipeInit /\ rz = RzOff

\* faulty variant: a size equal to the threshold is refused too
TooLargeInclusive(u) ==
    Uploads[u].sized /\ Content[Uploads[u].bytes].len >= MAX_FILE_SIZE

\* line 89: the size guard's test
TooLarge(u) ==
    Uploads[u].sized /\ Content[Uploads[u].bytes].len > MAX_FILE_SIZE

\* faulty variant: the cache never answers
CachedNever(k) == FALSE

\* line 47: the cache of process_image holds a value for key k
Cached(k) == cache[k] # << >>

\* An exception leaves the script: the run ends, the compute lock (a `with`
\* block) is released, nothing is stored.
Abort(s, reason) ==
    /\ pc' = [pc EXCEPT ![s] = "Failed"]
    /\ err' = [err EXCEPT ![s] = reason]
    /\ lock' = [k \in Keys |-> IF lock[k] = s THEN 0 ELSE lock[k]]

\* lines 67-79: a rerun starts with the widgets' values
Start(s) ==
    /\ pc[s] \in {"Idle", "Delivered", "Failed", "Prompted"}
    /\ started < MaxRequests
    /\ \E r \in Requests : req' = [req EXCEPT ![s] = r]
    /\ pc' = [pc EXCEPT ![s] = "Received"]
    /\ img_bytes' = [img_bytes EXCEPT ![s] = None]
    /\ img' = [img EXCEPT ![s] = Nothing]
    /\ result' = [result EXCEPT ![s] = Nothing]
    /\ final' = [final EXCEPT ![s] = Nothing]
    /\ buf' = [buf EXCEPT ![s] = Nothing]
    /\ download' = [download EXCEPT ![s] = Nothing]
    /\ err' = [err EXCEPT ![s] = None]
    /\ path' = [path EXCEPT ![s] = None]
    /\ blocked' = [blocked EXCEPT ![s] = FALSE]
    /\ invoked' = [invoked EXCEPT ![s] = FALSE]
    /\ started' = started + 1
    /\ UNCHANGED <<cache, lock, calls, fails, delivered, rz>>

\* lines 87, 140-142: nothing uploaded
Prompt(s) ==
    /\ pc[s] = "Received"
    /\ req[s].upload = None
    /\ pc' = [pc EXCEPT ![s] = "Prompted"]
    /\ UNCHANGED <<req, img_bytes, img, result, final, buf, download, err,
                   path, blocked, invoked, shared, rz>>

\* lines 89-92: the upload is refused
Reject(s) ==
    /\ pc[s] = "Received"
    /\ req[s].upload # None
    /\ TooLarge(req[s].upload)
    /\ Abort(s, "PayloadTooLarge")
    /\ UNCHANGED <<req, img_bytes, img, result, final, buf, download, path,
                   blocked, invoked, cache, calls, fails, started, delivered,
                   rz>>

\* lines 93-104: the upload passes, its bytes are read, process_image is
\* called: st.cache_data reads the cache a first time, without the lock
Lookup(s) ==
    /\ pc[s] = "Received"
    /\ req[s].upload # None
    /\ ~TooLarge(req[s].upload)
    /\ LET b == Uploads[req[s].upload].bytes
           k == KeyOf(b, req[s])
       IN /\ img_bytes' = [img_bytes EXCEPT ![s] = b]
          /\ IF Cached(k)
             THEN /\ result' = [result EXCEPT ![s] = Unpickle(cache[k])]
                  /\ path' = [path EXCEPT ![s] = "hit"]
                  /\ pc' = [pc EXCEPT ![s] = "Segmented"]
                  /\ UNCHANGED blocked
             ELSE /\ pc' = [pc EXCEPT ![s] = "Waiting"]
                  /\ blocked' = [blocked EXCEPT ![s] = lock[k] # 0]
                  /\ UNCHANGED <<result, path>>
    /\ UNCHANGED <<req, img, final, buf, download, err, invoked, shared, rz>>

\* the compute lock of key k can be taken
LockFree(k) == lock[k] = 0

\* line 104, st.cache_data on a miss: take the key's compute lock and read
\* the cache again; a value stored meanwhile is returned, else the function
\* body runs under the lock.
Acquire(s) ==
    /\ pc[s] = "Waiting"
    /\ LET k == KeyOf(img_bytes[s], req[s])
       IN /\ LockFree(k)
          /\ IF Cached(k)
             THEN /\ result' = [result EXCEPT ![s] = Unpickle(cache[k])]
                  /\ path' = [path EXCEPT ![s] = "waited"]
                  /\ pc' = [pc EXCEPT ![s] = "Segmented"]
                  /\ UNCHANGED lock
             ELSE /\ lock' = [lock EXCEPT ![k] = s]
                  /\ path' = [path EXCEPT ![s] = "cold"]
                  /\ pc' = [pc EXCEPT ![s] = "Computing"]
                  /\ UNCHANGED result
    /\ UNCHANGED <<req, img_bytes, img, final, buf, download, err, blocked,
                   invoked, cache, calls, fails, started, delivered, rz>>

\* line 59: Image.open(...).convert("RGBA") on bytes that are no image
DecodeFails(s) ==
    /\ pc[s] = "Computing"
    /\ ~Content[img_bytes[s]].ok
    /\ Abort(s, "DecodeFailed")
    /\ UNCHANGED <<req, img_bytes, img, result, final, buf, download, path,
                   blocked, invoked, cache, calls, fails, started, delivered,
                   rz>>

\* lines 59-61: the image is decoded, Image.resize raises in resize_image
ResizeFails(s) ==
    /\ pc[s] = "Computing"
    /\ Content[img_bytes[s]].ok
    /\ LET d == ConvertRGBA(ImageOpen(img_bytes[s]))
           r == ResizeTable[d]
       IN /\ IsRaised(r)
          /\ img' = [img EXCEPT ![s] = d]
          /\ Abort(s, r.raised)
    /\ UNCHANGED <<req, img_bytes, result, final, buf, download, path,
                   blocked, invoked, cache, calls, fails, started, delivered,
                   rz>>

\* lines 59-63: the image is decoded and resized, remove(img) is called
Invoke(s) ==
    /\ pc[s] = "Computing"
    /\ Content[img_bytes[s]].ok
    /\ LET r == ResizeTable[ConvertRGBA(ImageOpen(img_bytes[s]))]
       IN /\ ~IsRaised(r)
          /\ img' = [img EXCEPT ![s] = r]
    /\ pc' = [pc EXCEPT ![s] = "Segmenting"]
    /\ calls' = [calls EXCEPT ![img_bytes[s]] = @ + 1]
    /\ invoked' = [invoked EXCEPT ![s] = TRUE]
    /\ UNCHANGED <<req, img_bytes, result, final, buf, download, err,
                   path, blocked, cache, lock, fails, started, delivered, rz>>

\* lines 63-64: remove returns; st.cache_data stores the pickled value,
\* releases the lock and hands the value to the caller
RemoveReturns(s) ==
    /\ pc[s] = "Segmenting"
    /\ LET k == KeyOf(img_bytes[s], req[s])
           v == Remove(img[s])
       IN /\ cache' = [cache EXCEPT ![k] = Pickle(v)]
          /\ lock' = [lock EXCEPT ![k] = 0]
          /\ result' = [result EXCEPT ![s] = v]
    /\ pc' = [pc EXCEPT ![s] = "Segmented"]
    /\ UNCHANGED <<req, img_bytes, img, final, buf, download, err, path,
                   blocked, invoked, calls, fails, started, delivered, rz>>

\* faulty variant: the error is swallowed and the run goes on
AfterRaiseSwallowed == "Segmented"

\* where a run stands after remove raised
AfterRaise == "Failed"

\* line 63: remove raises; the exception passes through st.cache_data
\* (nothing is stored) and ends the run
RemoveRaises(s) ==
    /\ pc[s] = "Segmenting"
    /\ pc' = [pc EXCEPT ![s] = AfterRaise]
    /\ err' = [err EXCEPT ![s] = "SegmentationFailed"]
    /\ lock' = [k \in Keys |-> IF lock[k] = s THEN 0 ELSE lock[k]]
    /\ fails' = [fails EXCEPT ![img_bytes[s]] = @ + 1]
    /\ UNCHANGED <<req, img_bytes, img, result, final, buf, download, path,
                   blocked, invoked, cache, calls, started, delivered, rz>>

\* lines 134-139: the arguments of the download button
Download(b) ==
    [data |-> b.data,
     file_name |-> <<"processed_background_removed", b.ext>>,
     mime |-> <<"image", b.ext>>]

\* lines 105-139: the rest of the script after process_image returned:
\* compositing, encoding, the download button
Finish(s) ==
    /\ pc[s] = "Segmented"
    /\ LET fin == Composite(result[s], req[s])
           f == FormatFor(fin)
           b == [data |-> Save(fin, f.fmt), ext |-> f.ext]
       IN /\ final' = [final EXCEPT ![s] = fin]
          /\ buf' = [buf EXCEPT ![s] = b]
          /\ download' = [download EXCEPT ![s] = Download(b)]
          /\ delivered' = delivered \cup
                 {[bytes |-> img_bytes[s], fill |-> req[s].bg_color,
                   path |-> path[s], out |-> Download(b)]}
    /\ pc' = [pc EXCEPT ![s] = "Delivered"]
    /\ UNCHANGED <<req, img_bytes, img, result, err, path, blocked, invoked,
                   cache, lock, calls, fails, started, rz>>

Next ==
    \E s \in Sessions :
        \/ Start(s)
        \/ Prompt(s)
        \/ Reject(s)
        \/ Lookup(s)
        \/ Acquire(s)
        \/ DecodeFails(s)
        \/ ResizeFails(s)
        \/ Invoke(s)
        \/ RemoveReturns(s)
        \/ RemoveRaises(s)
        \/ Finish(s)

Spec == Init /\ [][Next]_vars

(***************************************************************************)
(* resize_image on its own: one call on an image of any size within the    *)
(* bounds, with any bound max_dim.                                         *)
(***************************************************************************)
RzImage(w, h) ==
    [mode |-> "RGBA", size |-> <<w, h>>, px |-> <<"input">>, format |-> None]

RzInit ==
    /\ PipeInit
    /\ rz \in {[st |-> "call", w |-> w, h |-> h, d |-> d, out |-> Nothing] :
                 w \in 1..MaxSide, h \in 1..MaxSide, d \in 1..MaxBound}

\* lines 26-44
RzCall ==
    /\ rz.st = "call"
    /\ LET r == resize_image(RzImage(rz.w, rz.h), rz.d)
       IN rz' = [rz EXCEPT !.st = IF IsRaised(r) THEN "raised" ELSE "returned",
                           !.out = r]
    /\ UNCHANGED <<local, shared>>

RzNext == RzCall

SpecResize == RzInit /\ [][RzNext]_vars

(***************************************************************************)
(* What the claims say.                                                    *)
(***************************************************************************)
Running(s) == pc[s] \notin {"Idle", "Received", "Prompted"}

\* the image process_image computes for bytes b when nothing raises
Segmented(b) ==
    LET d == [mode |-> "RGBA", size |-> Content[b].size,
              px |-> IF Content[b].mode = "RGBA" THEN <<b>> ELSE <<b, "RGBA">>,
              format |-> None]
        r == IF d.size[1] <= MAX_DIMENSION /\ d.size[2] <= MAX_DIMENSION
             THEN d ELSE ResizeTable[d]
    IN [mode |-> "RGBA", size |-> r.size, px |-> Append(r.px, "remove"),
        format |-> None]

InFlight(b) == {s \in Sessions : pc[s] = "Segmenting" /\ img_bytes[s] = b}

\* C1: of N >= 2 concurrent runs with identical bytes exactly one invokes
\* remove: a run that missed the cache while the computation for its key was
\* in flight waits for the first caller's result and never invokes remove
\* itself, so remove is invoked once per key in total.
C1_WaitersNeverInvoke ==
    \A s \in Sessions :
        blocked[s] => /\ ~invoked[s]
                      /\ calls[img_bytes[s]] <= 1

C3_SizeGuard ==
    \A s \in Sessions :
        Running(s) =>
            LET u == Uploads[req[s].upload]
                n == Content[u.bytes].len
                rejected == pc[s] = "Failed" /\ err[s] = "PayloadTooLarge"
            IN /\ rejected <=> (u.sized /\ n >= MAX_FILE_SIZE + 1)
               /\ err[s] = "PayloadTooLarge" => rejected
               /\ rejected => /\ img_bytes[s] = None
                              /\ img[s] = Nothing
                              /\ result[s] = Nothing
                              /\ ~invoked[s]
               /\ ~rejected => img_bytes[s] = u.bytes

C3_Witness ==
    \E s, t \in Sessions :
        /\ pc[s] = "Failed" /\ err[s] = "PayloadTooLarge"
        /\ Content[Uploads[req[s].upload].bytes].len = MAX_FILE_SIZE + 1
        /\ pc[t] = "Delivered"
        /\ Uploads[req[t].upload].sized
        /\ Content[Uploads[req[t].upload].bytes].len = MAX_FILE_SIZE

\* C4: a delivered image is RGBA exactly when its format is PNG (.png) and
\* opaque RGB exactly when its format is JPEG (.jpg); the format is PNG
\* exactly when no fill was applied and JPEG exactly when one was.
C4_FormatBinding ==
    \A s \in Sessions :
        pc[s] = "Delivered" =>
            LET d == download[s]
                png == /\ d.data.fmt = "PNG"
                       /\ d.file_name[2] = "png"
                       /\ d.mime = <<"image", "png">>
                jpg == /\ d.data.fmt = "JPEG"
                       /\ d.file_name[2] = "jpg"
                       /\ d.mime = <<"image", "jpg">>
            IN /\ final[s].mode \in {"RGBA", "RGB"}
               /\ d.data.mode = final[s].mode
               /\ png # jpg
               /\ (final[s].mode = "RGBA") <=> png
               /\ (final[s].mode = "RGB") <=> jpg
               /\ png <=> ~req[s].fill_bg
               /\ jpg <=> req[s].fill_bg

C4_Witness ==
    \E s, t \in Sessions :
        /\ pc[s] = "Delivered" /\ req[s].fill_bg
        /\ download[s].data.fmt = "JPEG"
        /\ pc[t] = "Delivered" /\ ~req[t].fill_bg
        /\ download[t].data.fmt = "PNG"

\* C5: when remove raises, the run ends Failed(SegmentationFailed) with
\* nothing delivered; a run that failed for any reason has produced no final
\* image, no encoded bytes and no download, and a download exists only in a
\* run that reached Delivered, where it is the complete encoded final image.
C5_NoPartialOutput ==
    /\ \A s \in Sessions :
         /\ err[s] = "SegmentationFailed" => pc[s] = "Failed" /\ invoked[s]
         /\ err[s] # None <=> pc[s] = "Failed"
         /\ pc[s] = "Failed" => /\ result[s] = Nothing
                                /\ final[s] = Nothing
                                /\ buf[s] = Nothing
                                /\ download[s] = Nothing
         /\ download[s] # Nothing =>
                /\ pc[s] = "Delivered"
                /\ download[s].data.px = final[s].px
                /\ download[s].data.size = Segmented(img_bytes[s]).size
    /\ \A d \in delivered :
         /\ d.out.data.mode \in {"RGBA", "RGB"}
         /\ d.out.data.size = Segmented(d.bytes).size
         /\ d.out.data.px[1] = "paste" \/ d.out.data.px[Len(d.out.data.px)] = "remove"

C5_Witness ==
    \E s \in Sessions :
        /\ pc[s] = "Failed"
        /\ err[s] = "SegmentationFailed"
        /\ download[s] = Nothing

\* C6: whenever max(w, h) > D, resize_image returns w' = floor(w*D/max(w,h))
\* and h' = floor(h*D/max(w,h)), with max(w', h') <= D and each side within
\* one pixel of the exactly scaled value.
C6_FloorScaling ==
    (rz.st = "returned" /\ Max(rz.w, rz.h) > rz.d) =>
        LET m == Max(rz.w, rz.h)
            w2 == rz.out.size[1]
            h2 == rz.out.size[2]
        IN /\ w2 = (rz.w * rz.d) \div m
           /\ h2 = (rz.h * rz.d) \div m
           /\ Max(w2, h2) <= rz.d
           /\ w2 * m <= rz.w * rz.d /\ rz.w * rz.d <= (w2 + 1) * m
           /\ h2 * m <= rz.h * rz.d /\ rz.h * rz.d <= (h2 + 1) * m

\* C7: the size guard, decoding and segmentation are the only steps that
\* abort a run: the Resizer never fails and every resized image has both
\* sides >= 1.
C7_OnlyTypedAborts ==
    \A s \in Sessions :
        /\ pc[s] = "Failed" =>
              err[s] \in {"PayloadTooLarge", "DecodeFailed", "SegmentationFailed"}
        /\ pc[s] = "Segmenting" => img[s].size[1] >= 1 /\ img[s].size[2] >= 1

C9_BoundedInput ==
    \A s \in Sessions :
        pc[s] = "Segmenting" =>
            LET c == Content[img_bytes[s]]
                small == c.size[1] <= MAX_DIMENSION /\ c.size[2] <= MAX_DIMENSION
            IN /\ img[s].mode = "RGBA"
               /\ img[s].size[1] <= MAX_DIMENSION
               /\ img[s].size[2] <= MAX_DIMENSION
               /\ small => /\ img[s].size = c.size
                           /\ \A i \in 1..Len(img[s].px) : img[s].px[i] # "LANCZOS"
               /\ ~small => img[s].px[Len(img[s].px)] = "LANCZOS"

C9_Witness ==
    \E s \in Sessions :
        /\ pc[s] = "Segmenting"
        /\ Max(Content[img_bytes[s]].size[1], Content[img_bytes[s]].size[2])
             = MAX_DIMENSION
        /\ img[s].size = Content[img_bytes[s]].size

\* C10: compositing leaves the segmented image as it was and the fill colour
\* is no part of the cache key: whatever fills earlier requests applied, a
\* run's result is the segmented RGBA image of its bytes, its final image is
\* that image (no fill) or a new RGB image of it pasted onto the run's own
\* colour, and remove is not invoked again for bytes already segmented.
C10_FillIndependent ==
    /\ \A s \in Sessions :
         result[s] # Nothing =>
            /\ result[s] = Segmented(img_bytes[s])
            /\ pc[s] = "Delivered" =>
                 IF req[s].fill_bg
                 THEN final[s] = [mode |-> "RGB", size |-> result[s].size,
                                  px |-> <<"paste", req[s].bg_color,
                                           result[s].px>>,
                                  format |-> None]
                 ELSE final[s] = result[s]
    /\ \A b \in Bytes : calls[b] <= fails[b] + 1
    /\ \A d \in delivered :
         d.out.data.px = IF d.fill = None THEN Segmented(d.bytes).px
                         ELSE <<"paste", d.fill, Segmented(d.bytes).px>>

C10_Witness ==
    \E d1, d2 \in delivered :
        /\ d1.bytes = d2.bytes
        /\ d1.fill # None /\ d1.path = "cold"
        /\ d2.fill = None /\ d2.path = "hit"
        /\ d2.out.data.mode = "RGBA"
        /\ calls[d1.bytes] = 1

====
